---- MODULE Spec2Model ----
(***************************************************************************)
(* Lumina: the AI response parser (core/ai_tutor.py) and the evaluation    *)
(* test orchestrator (core/views.py), with the persisted EvaluationResult  *)
(* (core/models.py).                                                       *)
(*                                                                         *)
(* AI texts are strings, handled character by character.  A TLA+ string    *)
(* literal cannot contain the character U+0060, so the backquote of a      *)
(* markdown code fence is written as the apostrophe (Backtick below); no   *)
(* text of the model uses the apostrophe for anything else.                *)
(*                                                                         *)
(* Python values are tagged tuples, the tag first:                         *)
(*   None <<"null">>, bool <<"bool", b>>, int <<"int", n>>,                *)
(*   str <<"str", s>>, list <<"list", <<v1, ...>>>>,                       *)
(*   dict <<"dict", <<<<k1, v1>>, ...>>>> in insertion order.              *)
(* A raised exception is <<"raise", type>>.                                *)
(***************************************************************************)
EXTENDS Integers, Sequences, FiniteSets, TLC

----------------------------------------------------------------------------
(* Python values *)

None == <<"null">>
PyBool(b) == <<"bool", b>>
PyInt(n) == <<"int", n>>
PyStr(s) == <<"str", s>>
PyList(items) == <<"list", items>>
PyDict(pairs) == <<"dict", pairs>>
Raise(type) == <<"raise", type>>

TypeOf(v) == v[1]
CharAt(s, i) == SubSeq(s, i, i)
IsRaise(v) == TypeOf(v) = "raise"
IsDict(v) == TypeOf(v) = "dict"
IsList(v) == TypeOf(v) = "list"
IsStr(v) == TypeOf(v) = "str"

\* bool(v): None, False, 0, "", [] and {} are false, every other value true
Truthy(v) ==
    CASE TypeOf(v) = "null" -> FALSE
      [] TypeOf(v) = "bool" -> v[2]
      [] TypeOf(v) = "int" -> v[2] # 0
      [] TypeOf(v) = "str" -> v[2] # ""
      [] TypeOf(v) = "list" -> v[2] # <<>>
      [] TypeOf(v) = "dict" -> v[2] # <<>>
      [] OTHER -> TRUE

\* lists and dicts cannot be dict keys
Hashable(v) == TypeOf(v) \notin {"list", "dict"}

\* the position of key k in a dict's pairs, 0 when absent
RECURSIVE KeyIndex(_, _, _)
KeyIndex(pairs, k, i) ==
    IF i > Len(pairs) THEN 0
    ELSE IF pairs[i][1] = k THEN i
    ELSE KeyIndex(pairs, k, i + 1)

HasKey(d, k) == KeyIndex(d[2], k, 1) # 0

\* d[k] = v: an existing key keeps its position and takes the new value
DictSet(d, k, v) ==
    LET i == KeyIndex(d[2], k, 1)
    IN  IF i = 0 THEN PyDict(Append(d[2], <<k, v>>))
        ELSE PyDict([d[2] EXCEPT ![i] = <<k, v>>])

\* d.get(k, default); on a value that is not a dict the attribute lookup fails
DictGet(d, k, default) ==
    IF ~IsDict(d) THEN Raise("AttributeError")
    ELSE LET i == KeyIndex(d[2], k, 1)
         IN  IF i = 0 THEN default ELSE d[2][i][2]

\* s is a substring of t
IsSubstring(s, t) ==
    \E i \in 1..(Len(t) - Len(s) + 1) : SubSeq(t, i, i + Len(s) - 1) = s

\* "k in v" raises TypeError: v is no container, or a str asked for a non-str
ContainsRaises(v, k) ==
    CASE TypeOf(v) = "dict" -> FALSE
      [] TypeOf(v) = "list" -> FALSE
      [] TypeOf(v) = "str" -> ~IsStr(k)
      [] OTHER -> TRUE

\* k in v, where it does not raise
Contains(v, k) ==
    CASE TypeOf(v) = "dict" -> HasKey(v, k)
      [] TypeOf(v) = "list" -> \E i \in 1..Len(v[2]) : v[2][i] = k
      [] TypeOf(v) = "str" -> IsSubstring(k[2], v[2])

\* iter(v) raises TypeError
Iterable(v) == TypeOf(v) \in {"list", "dict", "str"}

\* what a for loop over v visits: the items of a list, the keys of a dict,
\* the characters of a str
Items(v) ==
    CASE TypeOf(v) = "list" -> v[2]
      [] TypeOf(v) = "dict" -> [i \in 1..Len(v[2]) |-> v[2][i][1]]
      [] TypeOf(v) = "str" -> [i \in 1..Len(v[2]) |-> PyStr(CharAt(v[2], i))]

\* v[k] for a str key k
Subscript(v, k) ==
    CASE TypeOf(v) = "dict" ->
            IF HasKey(v, k) THEN DictGet(v, k, None) ELSE Raise("KeyError")
      [] OTHER -> Raise("TypeError")

----------------------------------------------------------------------------
(* str.replace, str.strip *)

Backtick == "'"
Fence == Backtick \o Backtick \o Backtick
FenceJson == Fence \o "json"
StripChars == {" ", "\n", "\t", "\r"}

StartsWithAt(s, i, pat) ==
    /\ i + Len(pat) - 1 <= Len(s)
    /\ SubSeq(s, i, i + Len(pat) - 1) = pat

Min(S) == CHOOSE m \in S : \A n \in S : m <= n

\* s.replace(pat, ''): one left-to-right pass over non-overlapping matches;
\* from i on, the text up to the next match is kept and the match is dropped
RECURSIVE RemoveFrom(_, _, _)
RemoveFrom(s, pat, i) ==
    LET matches == {j \in i..Len(s) : StartsWithAt(s, j, pat)}
    IN  IF matches = {} THEN SubSeq(s, i, Len(s))
        ELSE SubSeq(s, i, Min(matches) - 1) \o RemoveFrom(s, pat, Min(matches) + Len(pat))

Remove(s, pat) == RemoveFrom(s, pat, 1)

\* the first and the last character that strip() keeps; Len(s) + 1 and 0 when
\* it keeps none
RECURSIVE FirstKept(_, _)
FirstKept(s, i) ==
    IF i > Len(s) THEN i
    ELSE IF CharAt(s, i) \in StripChars THEN FirstKept(s, i + 1)
    ELSE i

RECURSIVE LastKept(_, _)
LastKept(s, i) ==
    IF i < 1 THEN i
    ELSE IF CharAt(s, i) \in StripChars THEN LastKept(s, i - 1)
    ELSE i

Strip(s) == SubSeq(s, FirstKept(s, 1), LastKept(s, Len(s)))

\* the two replace calls in the other order: the bare fence goes first and
\* leaves the word json of a json fence behind
CleanResponse_FenceFirst(text) == Strip(Remove(Remove(text, Fence), FenceJson))

\* response.text.replace('```json', '').replace('```', '').strip()
CleanResponse(text) == Strip(Remove(Remove(text, FenceJson), Fence))

----------------------------------------------------------------------------
(* json.loads, for texts made of JSON punctuation, whitespace, letters and *)
(* decimal digits: objects, arrays, strings without escapes, integers and  *)
(* the literals null, true and false.  No text of the model contains a     *)
(* backslash, a fraction, an exponent or NaN/Infinity.                     *)

JsonWs == {" ", "\n", "\t", "\r"}
Quote == "\""
DigitChars == <<"0", "1", "2", "3", "4", "5", "6", "7", "8", "9">>
IsDigit(c) == \E d \in 1..10 : DigitChars[d] = c
DigitVal(c) == (CHOOSE d \in 1..10 : DigitChars[d] = c) - 1

Ok(v, next) == <<"ok", v, next>>
Err == <<"err">>
IsOk(r) == r[1] = "ok"

\* the first index from i on that holds no whitespace
RECURSIVE SkipWs(_, _)
SkipWs(s, i) ==
    IF i <= Len(s) /\ CharAt(s, i) \in JsonWs THEN SkipWs(s, i + 1) ELSE i

\* the index of the closing quote of the string whose body starts at i; 0 when
\* the string is unterminated or holds a control character
RECURSIVE StringEnd(_, _)
StringEnd(s, i) ==
    IF i > Len(s) THEN 0
    ELSE IF CharAt(s, i) = Quote THEN i
    ELSE IF CharAt(s, i) \in {"\n", "\t", "\r", "\\"} THEN 0
    ELSE StringEnd(s, i + 1)

ScanString(s, i) ==
    LET e == StringEnd(s, i)
    IN  IF e = 0 THEN Err ELSE Ok(PyStr(SubSeq(s, i, e - 1)), e + 1)

\* the digits from i on, as <<value, next index>>
RECURSIVE ScanDigits(_, _, _)
ScanDigits(s, i, acc) ==
    IF i <= Len(s) /\ IsDigit(CharAt(s, i))
    THEN ScanDigits(s, i + 1, 10 * acc + DigitVal(CharAt(s, i)))
    ELSE <<acc, i>>

\* -?(0|[1-9][0-9]*)
ScanNumber(s, i) ==
    LET neg == CharAt(s, i) = "-"
        j == IF neg THEN i + 1 ELSE i
    IN  IF j > Len(s) \/ ~IsDigit(CharAt(s, j)) THEN Err
        ELSE IF CharAt(s, j) = "0" THEN Ok(PyInt(0), j + 1)
        ELSE LET d == ScanDigits(s, j, 0)
             IN  Ok(PyInt(IF neg THEN 0 - d[1] ELSE d[1]), d[2])

RECURSIVE ScanOnce(_, _)
RECURSIVE ScanArrayItems(_, _, _)
RECURSIVE ScanObjectPairs(_, _, _)

\* the items of an array from i on (i is at the first character of an item)
ScanArrayItems(s, i, acc) ==
    LET r == ScanOnce(s, i)
    IN  IF ~IsOk(r) THEN Err
        ELSE LET j == SkipWs(s, r[3])
                 items == Append(acc, r[2])
             IN  IF j > Len(s) THEN Err
                 ELSE IF CharAt(s, j) = "]" THEN Ok(PyList(items), j + 1)
                 ELSE IF CharAt(s, j) # "," THEN Err
                 ELSE ScanArrayItems(s, SkipWs(s, j + 1), items)

\* the pairs of an object from i on (i is at the opening quote of a key)
ScanObjectPairs(s, i, acc) ==
    IF i > Len(s) \/ CharAt(s, i) # Quote THEN Err
    ELSE LET k == ScanString(s, i + 1)
         IN  IF ~IsOk(k) THEN Err
             ELSE LET c == SkipWs(s, k[3])
                  IN  IF c > Len(s) \/ CharAt(s, c) # ":" THEN Err
                      ELSE LET r == ScanOnce(s, SkipWs(s, c + 1))
                           IN  IF ~IsOk(r) THEN Err
                               ELSE LET j == SkipWs(s, r[3])
                                        d == DictSet(acc, k[2], r[2])
                                    IN  IF j > Len(s) THEN Err
                                        ELSE IF CharAt(s, j) = "}" THEN Ok(d, j + 1)
                                        ELSE IF CharAt(s, j) # "," THEN Err
                                        ELSE ScanObjectPairs(s, SkipWs(s, j + 1), d)

ScanOnce(s, i) ==
    IF i > Len(s) THEN Err
    ELSE LET c == CharAt(s, i)
         IN  CASE c = Quote -> ScanString(s, i + 1)
               [] c = "{" ->
                    LET j == SkipWs(s, i + 1)
                    IN  IF j <= Len(s) /\ CharAt(s, j) = "}"
                        THEN Ok(PyDict(<<>>), j + 1)
                        ELSE ScanObjectPairs(s, j, PyDict(<<>>))
               [] c = "[" ->
                    LET j == SkipWs(s, i + 1)
                    IN  IF j <= Len(s) /\ CharAt(s, j) = "]"
                        THEN Ok(PyList(<<>>), j + 1)
                        ELSE ScanArrayItems(s, j, <<>>)
               [] c = "n" ->
                    IF StartsWithAt(s, i, "null") THEN Ok(None, i + 4) ELSE Err
               [] c = "t" ->
                    IF StartsWithAt(s, i, "true") THEN Ok(PyBool(TRUE), i + 4) ELSE Err
               [] c = "f" ->
                    IF StartsWithAt(s, i, "false") THEN Ok(PyBool(FALSE), i + 5) ELSE Err
               [] OTHER -> ScanNumber(s, i)

\* json.loads(s): the decoded value, or JSONDecodeError
JsonLoads(s) ==
    LET r == ScanOnce(s, SkipWs(s, 1))
    IN  IF ~IsOk(r) THEN Raise("JSONDecodeError")
        ELSE IF SkipWs(s, r[3]) # Len(s) + 1 THEN Raise("JSONDecodeError")
        ELSE r[2]

----------------------------------------------------------------------------
(* core/ai_tutor.py *)

\* A reply of model.generate_content: either the call (or reading
\* response.text) raises, or there is a response object with its text.
\* has_result says whether the response object has an attribute named
\* "result", which the JSONDecodeError handler of generate_evaluation_test
\* reads; the response class belongs to the AI client library.
Raises == [raises |-> TRUE, text |-> "", has_result |-> FALSE]
Reply(text, has_result) == [raises |-> FALSE, text |-> text, has_result |-> has_result]

EmptyMsg == "The AI returned an empty response."
MalformedMsg == "The AI returned a malformed response. Please try again."
ConnectMsg == "There was a problem connecting to the AI service. Please check your API key and try again."

\* what a call leaves to its caller: exc is "" for a normal return and the
\* exception type otherwise; steps lists what the call did, in order
Returned(data, error, steps) == [exc |-> "", data |-> data, error |-> error, steps |-> steps]
Raised(type, steps) == [exc |-> type, data |-> None, error |-> None, steps |-> steps]

generate_evaluation_test(resp) ==
    IF resp.raises
    THEN Returned(None, PyStr(ConnectMsg), <<"generate_content">>)
    ELSE LET json_response == CleanResponse(resp.text)
         IN  IF json_response = ""
             THEN Returned(None, PyStr(EmptyMsg), <<"generate_content", "clean">>)
             ELSE LET data == JsonLoads(json_response)
                      steps == <<"generate_content", "clean", "json.loads">>
                  IN  IF ~IsRaise(data) THEN Returned(data, None, steps)
                      ELSE IF resp.has_result
                      THEN Returned(None, PyStr(MalformedMsg), steps)
                      ELSE Raised("AttributeError", steps)

\* user_answers goes into the prompt only
analyze_user_performance(user_answers, resp) ==
    IF resp.raises THEN None
    ELSE LET data == JsonLoads(CleanResponse(resp.text))
         IN  IF IsRaise(data) THEN None ELSE data

FailedExplanationMsg == "Sorry, the AI could not generate an explanation for this question at this time."

\* the failure dictionary with an entry for the first wrong answer only
failed_explanations_FirstOnly(wrong_answers, i, acc) ==
    IF wrong_answers = <<>> THEN acc
    ELSE DictSet(acc, wrong_answers[1].question_text, PyStr(FailedExplanationMsg))

\* the except branch of get_bulk_explanations: one entry per wrong answer
RECURSIVE failed_explanations(_, _, _)
failed_explanations(wrong_answers, i, acc) ==
    IF i > Len(wrong_answers) THEN acc
    ELSE IF ~Hashable(wrong_answers[i].question_text) THEN Raise("TypeError")
    ELSE failed_explanations(wrong_answers, i + 1,
            DictSet(acc, wrong_answers[i].question_text, PyStr(FailedExplanationMsg)))

get_bulk_explanations(wrong_answers, resp) ==
    IF resp.raises \/ IsRaise(JsonLoads(CleanResponse(resp.text)))
    THEN failed_explanations(wrong_answers, 1, PyDict(<<>>))
    ELSE JsonLoads(CleanResponse(resp.text))

----------------------------------------------------------------------------
(* core/views.py, core/models.py: the state *)

VARIABLES
    session,    \* request.session: evaluation_questions, evaluation_start_time
    points,     \* request.user.points
    results,    \* the EvaluationResult rows, in creation order
    response,   \* what the last request got back
    trace,      \* what the last request did: AI calls and writes, in order
    requests    \* the number of requests handled so far

vars == <<session, points, results, response, trace, requests>>

Absent == <<"absent">>
EmptySession == [evaluation_questions |-> Absent, evaluation_start_time |-> Absent]

\* request.session.get(key, default)
SessionGet(sess, key, default) ==
    IF sess[key] = Absent THEN default ELSE sess[key]

\* timezone.now().isoformat() during request number n
IsoTime(n) == <<"isotime", n, 0>>
ExamMinutes == 15
\* (fromisoformat(start) + timedelta(minutes = 15)).isoformat()
DeadlineIso(start) == <<"isotime", start[2], start[3] + ExamMinutes>>

Render(template, context) == <<"render", template, context>>
Redirect(name, arg) == <<"redirect", name, arg>>
\* an exception that leaves the view: the request fails
Unhandled(type) == <<"exception", type>>

MissingQuestionsMsg == "AI response was valid but missing the \"questions\" data."

RewardPoints == 10
PenaltyPoints == 5

----------------------------------------------------------------------------
(* take_evaluation_view *)

\* what a view leaves behind
Outcome(sess, pts, created, resp, tr) ==
    [session |-> sess, points |-> pts, created |-> created, response |-> resp, trace |-> tr]

\* the POST branch once generate_evaluation_test has left g to the view
take_evaluation_post(sess, pts, ai, g, now) ==
    LET tr == << <<"generate_evaluation_test", ai, g>> >>
        key == PyStr("questions")
        error(message) ==
            Outcome(sess, pts, <<>>, Render("evaluation/error.html", message), tr)
    IN  IF g.exc # "" THEN Outcome(sess, pts, <<>>, Unhandled(g.exc), tr)
        ELSE IF Truthy(g.error) THEN error(g.error[2])
        ELSE IF ~Truthy(g.data) THEN error(MissingQuestionsMsg)
        ELSE IF ContainsRaises(g.data, key)
        THEN Outcome(sess, pts, <<>>, Unhandled("TypeError"), tr)
        ELSE IF ~Contains(g.data, key) THEN error(MissingQuestionsMsg)
        ELSE IF IsRaise(Subscript(g.data, key))
        THEN Outcome(sess, pts, <<>>, Unhandled("TypeError"), tr)
        ELSE Outcome([evaluation_questions |-> Subscript(g.data, key),
                      evaluation_start_time |-> IsoTime(now)],
                     pts, <<>>, Redirect("take_evaluation", 0), tr)

\* the GET branch
take_evaluation_get(sess, pts) ==
    LET questions == SessionGet(sess, "evaluation_questions", None)
        start_time_iso == SessionGet(sess, "evaluation_start_time", None)
    IN  IF ~Truthy(questions) \/ ~Truthy(start_time_iso)
        THEN Outcome(sess, pts, <<>>, Redirect("start_evaluation", 0), <<>>)
        ELSE Outcome(sess, pts, <<>>,
                     Render("evaluation/take.html",
                            [questions |-> questions,
                             deadline_iso |-> DeadlineIso(start_time_iso)]),
                     <<>>)

take_evaluation_view(sess, pts, method, ai, now) ==
    IF method = "POST"
    THEN take_evaluation_post(sess, pts, ai, generate_evaluation_test(ai), now)
    ELSE take_evaluation_get(sess, pts)

----------------------------------------------------------------------------
(* submit_evaluation_view *)

\* the scoring loop; post[i] is request.POST.get("question_<i-1>"), None when
\* the form has no such field.  acc.exc is the exception that ends the loop.
RECURSIVE ScoreAnswers(_, _, _, _)
ScoreAnswers(questions, post, i, acc) ==
    IF i > Len(questions) THEN acc
    ELSE LET q == questions[i]
             user_answer == post[i]
             correct_answer == Subscript(q, PyStr("correct_answer"))
         IN  IF IsRaise(correct_answer) THEN [acc EXCEPT !.exc = correct_answer[2]]
             ELSE IF \E k \in {"question_text", "options", "topic"} : ~HasKey(q, PyStr(k))
             THEN [acc EXCEPT !.exc = "KeyError"]
             ELSE LET is_correct == (user_answer = correct_answer)
                      question_text == Subscript(q, PyStr("question_text"))
                      options == Subscript(q, PyStr("options"))
                      item == [question_text |-> question_text,
                               options |-> options,
                               topic |-> Subscript(q, PyStr("topic")),
                               user_answer |-> user_answer,
                               correct_answer |-> correct_answer,
                               is_correct |-> is_correct,
                               explanation |-> PyStr("")]
                      wrong == [question_text |-> question_text,
                                options |-> options,
                                user_answer |-> user_answer,
                                correct_answer |-> correct_answer]
                  IN  ScoreAnswers(questions, post, i + 1,
                        IF is_correct
                        THEN [acc EXCEPT !.score = @ + 1,
                                         !.points_change = @ + RewardPoints,
                                         !.full_results_data = Append(@, item)]
                        ELSE [acc EXCEPT !.points_change = @ - PenaltyPoints,
                                         !.wrong_answers_for_ai = Append(@, wrong),
                                         !.full_results_data = Append(@, item)])

ScoreStart ==
    [exc |-> "", score |-> 0, points_change |-> 0,
     wrong_answers_for_ai |-> <<>>, full_results_data |-> <<>>]

AnalysisFallback ==
    PyDict(<< <<PyStr("weakness_summary"), PyStr("Analysis could not be generated.")>>,
              <<PyStr("detailed_weaknesses"), PyList(<<>>)>> >>)

MissingExplanationMsg == "Sorry, an explanation could not be generated for this question."

\* the merge loop raises: .get on a value that is no dict, or an unhashable key
MergeRaises(full_results_data, all_explanations) ==
    IF \A i \in 1..Len(full_results_data) : full_results_data[i].is_correct THEN ""
    ELSE IF ~IsDict(all_explanations) THEN "AttributeError"
    ELSE IF \E i \in 1..Len(full_results_data) :
                /\ ~full_results_data[i].is_correct
                /\ ~Hashable(full_results_data[i].question_text)
    THEN "TypeError"
    ELSE ""

\* the merge with the failure placeholder as the default of the lookup
MergeExplanations_FailureDefault(full_results_data, all_explanations) ==
    [i \in 1..Len(full_results_data) |->
        LET result_item == full_results_data[i]
        IN  IF ~result_item.is_correct
            THEN [result_item EXCEPT !.explanation =
                    DictGet(all_explanations, result_item.question_text,
                            PyStr(FailedExplanationMsg))]
            ELSE result_item]

\* the merge without the is_correct test: every entry takes an explanation
MergeExplanations_Everywhere(full_results_data, all_explanations) ==
    [i \in 1..Len(full_results_data) |->
        LET result_item == full_results_data[i]
        IN  [result_item EXCEPT !.explanation =
                DictGet(all_explanations, result_item.question_text,
                        PyStr(MissingExplanationMsg))]]

\* the merge loop, where it does not raise
MergeExplanations(full_results_data, all_explanations) ==
    [i \in 1..Len(full_results_data) |->
        LET result_item == full_results_data[i]
        IN  IF ~result_item.is_correct
            THEN [result_item EXCEPT !.explanation =
                    DictGet(all_explanations, result_item.question_text,
                            PyStr(MissingExplanationMsg))]
            ELSE result_item]

\* EvaluationResult.objects.create: weakness_summary and detailed_weaknesses
\* are declared without null=True, so a None in either is refused
CreateRaises(weakness_summary, detailed_weaknesses) ==
    weakness_summary = None \/ detailed_weaknesses = None

\* steps 4 to 7: the points, the new row, the session clean-up, the redirect;
\* tr is the trace of the two AI calls
submit_persist(sess, new_points, rows, total_questions, score, analysis, full_results_data, tr, now) ==
    LET saved == Append(tr, <<"user.save", new_points>>)
        weakness_summary == DictGet(analysis, PyStr("weakness_summary"), None)
        detailed_weaknesses == DictGet(analysis, PyStr("detailed_weaknesses"), None)
        result == [id |-> Len(rows) + 1,
                   user |-> "user",
                   timestamp |-> IsoTime(now),
                   score |-> score,
                   total_questions |-> total_questions,
                   weakness_summary |-> weakness_summary,
                   detailed_weaknesses |-> detailed_weaknesses,
                   full_results_data |-> full_results_data]
    IN  IF ~IsDict(analysis)
        THEN Outcome(sess, new_points, <<>>, Unhandled("AttributeError"), saved)
        ELSE IF CreateRaises(weakness_summary, detailed_weaknesses)
        THEN Outcome(sess, new_points, <<>>, Unhandled("IntegrityError"), saved)
        ELSE Outcome(EmptySession, new_points, <<result>>,
                     Redirect("evaluation_results", Len(rows) + 1),
                     saved \o << <<"EvaluationResult.create", Len(rows) + 1>>,
                                 <<"del session">> >>)

\* step 3 after the two AI calls: returned is what analyze_user_performance
\* returned, all_explanations what get_bulk_explanations returned or raised
submit_explained(sess, pts, rows, total_questions, sc, analysis_ai, explain_ai, returned, all_explanations, now) ==
    LET wrong == sc.wrong_answers_for_ai
        tr == << <<"analyze_user_performance", wrong, analysis_ai, returned>>,
                 <<"get_bulk_explanations", wrong, explain_ai, all_explanations>> >>
    IN  IF IsRaise(all_explanations)
        THEN Outcome(sess, pts, <<>>, Unhandled(all_explanations[2]), tr)
        ELSE IF MergeRaises(sc.full_results_data, all_explanations) # ""
        THEN Outcome(sess, pts, <<>>,
                     Unhandled(MergeRaises(sc.full_results_data, all_explanations)), tr)
        ELSE submit_persist(sess, pts + sc.points_change, rows, total_questions, sc.score,
                            IF ~Truthy(returned) THEN AnalysisFallback ELSE returned,
                            MergeExplanations(sc.full_results_data, all_explanations),
                            tr, now)

\* step 3 after the scoring loop has left sc
submit_scored(sess, pts, rows, total_questions, sc, analysis_ai, explain_ai, now) ==
    IF sc.exc # "" THEN Outcome(sess, pts, <<>>, Unhandled(sc.exc), <<>>)
    ELSE submit_explained(sess, pts, rows, total_questions, sc, analysis_ai, explain_ai,
                          analyze_user_performance(sc.wrong_answers_for_ai, analysis_ai),
                          get_bulk_explanations(sc.wrong_answers_for_ai, explain_ai),
                          now)

\* the view without its check of the request method
submit_evaluation_view_AnyMethod(sess, pts, rows, method, post, analysis_ai, explain_ai, now) ==
    LET questions == SessionGet(sess, "evaluation_questions", PyList(<<>>))
    IN  IF ~Truthy(questions)
        THEN Outcome(sess, pts, <<>>, Redirect("start_evaluation", 0), <<>>)
        ELSE IF ~Iterable(questions)
        THEN Outcome(sess, pts, <<>>, Unhandled("TypeError"), <<>>)
        ELSE submit_scored(sess, pts, rows, Len(Items(questions)),
                           ScoreAnswers(Items(questions), post, 1, ScoreStart),
                           analysis_ai, explain_ai, now)

submit_evaluation_view(sess, pts, rows, method, post, analysis_ai, explain_ai, now) ==
    LET questions == SessionGet(sess, "evaluation_questions", PyList(<<>>))
    IN  IF method # "POST" \/ ~Truthy(questions)
        THEN Outcome(sess, pts, <<>>, Redirect("start_evaluation", 0), <<>>)
        ELSE IF ~Iterable(questions)
        THEN Outcome(sess, pts, <<>>, Unhandled("TypeError"), <<>>)
        ELSE submit_scored(sess, pts, rows, Len(Items(questions)),
                           ScoreAnswers(Items(questions), post, 1, ScoreStart),
                           analysis_ai, explain_ai, now)

----------------------------------------------------------------------------
(* The AI service's replies and the submitted forms *)

MaxRequests == 2    \* requests handled in one behaviour
MaxQuestions == 2   \* questions in a generated test
MaxPieces == 3      \* pieces in a free-form AI text
MaxSubmits == 2     \* submissions against one generated test

RECURSIVE Join(_, _, _)
Join(parts, sep, i) ==
    IF i > Len(parts) THEN ""
    ELSE IF i = Len(parts) THEN parts[i]
    ELSE parts[i] \o sep \o Join(parts, sep, i + 1)

Quoted(s) == Quote \o s \o Quote

\* free-form texts: every concatenation of at most MaxPieces pieces
Pieces == {Backtick, Fence, FenceJson, " ", "\n", "x", "{}", "1"}
PieceTexts ==
    UNION {{Join(p, "", 1) : p \in [1..n -> Pieces]} : n \in 0..MaxPieces}

\* a generated question: its text and its correct_answer as JSON
QuestionTexts == {"a", "b"}
CorrectAnswers == {Quoted("A"), "null"}
QuestionJson(text, correct) ==
    "{\"question_text\":" \o Quoted(text)
        \o ",\"options\":{\"A\":\"1\",\"B\":\"2\"}"
        \o ",\"correct_answer\":" \o correct
        \o ",\"topic\":\"t\"}"
QuestionsJson(qs) ==
    "{\"questions\":["
        \o Join([i \in 1..Len(qs) |-> QuestionJson(qs[i][1], qs[i][2])], ",", 1)
        \o "]}"
TestTexts ==
    UNION {{QuestionsJson(qs) : qs \in [1..n -> QuestionTexts \X CorrectAnswers]}
            : n \in 1..MaxQuestions}

\* decodable texts that are not a well-formed test
OddTexts ==
    {"true", "null", Quoted("questions"), "[" \o Quoted("questions") \o "]",
     "{\"a\":1}", "{\"questions\":[]}", "{\"questions\":null}", "{\"questions\":1}",
     "{\"questions\":\"x\"}", "{\"questions\":{\"a\":1}}", "{\"questions\":[1]}",
     "{\"questions\":[{\"question_text\":\"a\"}]}",
     "{\"questions\":[{\"question_text\":[],\"options\":{},\"correct_answer\":\"A\",\"topic\":\"t\"}]}",
     FenceJson \o "\n" \o QuestionsJson(<< <<"a", Quoted("A")>> >>) \o "\n" \o Fence}

\* texts that fail to decode, or decode to nothing
FailingTexts == {"", FenceJson \o "\n" \o Fence, "x", "{}", "1"}

\* the replies to a test generation in the flow, and the free-form ones
GenerateReplies ==
    {Raises} \cup {Reply(t, h) : t \in FailingTexts \cup TestTexts \cup OddTexts, h \in BOOLEAN}
FreeFormReplies ==
    {Reply(t, h) : t \in PieceTexts, h \in BOOLEAN}

AnalysisTexts ==
    {"", "x", "[1]",
     "{\"weakness_summary\":\"s\"}",
     "{\"detailed_weaknesses\":[\"w\"]}",
     "{\"weakness_summary\":\"s\",\"detailed_weaknesses\":[\"w\"]}",
     FenceJson \o "\n{\"weakness_summary\":\"s\",\"detailed_weaknesses\":[]}\n" \o Fence}
AnalysisReplies == {Raises} \cup {Reply(t, FALSE) : t \in AnalysisTexts}

\* explanation mappings: any subset of the question texts, each with an empty
\* explanation or one of its own
ExplanationJson(keys, empty) ==
    LET ks == CHOOSE seq \in [1..Cardinality(keys) -> keys] :
                    \A i, j \in 1..Cardinality(keys) : i # j => seq[i] # seq[j]
    IN  "{" \o Join([i \in 1..Len(ks) |->
                        Quoted(ks[i]) \o ":"
                            \o Quoted(IF ks[i] \in empty THEN "" ELSE "why " \o ks[i])],
                    ",", 1)
            \o "}"
ExplanationTexts ==
    {"", "x", "[1]"} \cup
    {ExplanationJson(keys, empty) : keys \in SUBSET QuestionTexts, empty \in SUBSET QuestionTexts}
ExplanationReplies == {Raises} \cup {Reply(t, FALSE) : t \in ExplanationTexts}

Answers == {None, PyStr("A"), PyStr("B")}
Methods == {"GET", "POST"}

\* the forms that can be posted against the session's questions
Forms(sess) ==
    LET questions == SessionGet(sess, "evaluation_questions", None)
        n == IF Iterable(questions) THEN Len(Items(questions)) ELSE 0
    IN  [1..n -> Answers]

----------------------------------------------------------------------------
(* The requests *)

Init ==
    /\ session = EmptySession
    /\ points = 0
    /\ results = <<>>
    /\ response = <<"none">>
    /\ trace = <<>>
    /\ requests = 0

Handle(o) ==
    /\ session' = o.session
    /\ points' = o.points
    /\ results' = results \o o.created
    /\ response' = o.response
    /\ trace' = o.trace
    /\ requests' = requests + 1

TakePost ==
    /\ requests < MaxRequests
    /\ \E ai \in GenerateReplies :
          Handle(take_evaluation_view(session, points, "POST", ai, requests + 1))

TakeGet ==
    /\ requests < MaxRequests
    /\ Handle(take_evaluation_view(session, points, "GET", Raises, requests + 1))

Submit ==
    /\ requests < MaxRequests
    /\ \E method \in Methods, post \in Forms(session),
          analysis_ai \in AnalysisReplies, explain_ai \in ExplanationReplies :
          Handle(submit_evaluation_view(session, points, results, method, post,
                                        analysis_ai, explain_ai, requests + 1))

Next == TakePost \/ TakeGet \/ Submit

Spec == Init /\ [][Next]_vars

\* the first request of a session is a test generation that the AI service
\* answers with free-form text
TakePostFreeForm ==
    /\ requests = 0
    /\ \E ai \in FreeFormReplies :
          Handle(take_evaluation_view(session, points, "POST", ai, requests + 1))

ParseSpec == Init /\ [][TakePostFreeForm]_vars

\* one test of one question is generated, then submitted up to MaxSubmits
\* times by the same user
ResubmitTests == {QuestionsJson(<<q>>) : q \in QuestionTexts \X CorrectAnswers}
ResubmitExplanations == {Raises, Reply("[1]", FALSE), Reply("{}", FALSE)}

TakePostOnce ==
    /\ requests = 0
    /\ \E text \in ResubmitTests :
          Handle(take_evaluation_view(session, points, "POST", Reply(text, FALSE),
                                      requests + 1))

SubmitAgain ==
    /\ requests \in 1..MaxSubmits
    /\ \E method \in Methods, post \in Forms(session),
          analysis_ai \in AnalysisReplies, explain_ai \in ResubmitExplanations :
          Handle(submit_evaluation_view(session, points, results, method, post,
                                        analysis_ai, explain_ai, requests + 1))

ResubmitSpec == Init /\ [][TakePostOnce \/ SubmitAgain]_vars

----------------------------------------------------------------------------
(* Reading the last request *)

HasEvent(tr, tag) == \E i \in 1..Len(tr) : tr[i][1] = tag
Event(tr, tag) == tr[CHOOSE i \in 1..Len(tr) : tr[i][1] = tag]

\* the last request was a test generation; its AI reply and what
\* generate_evaluation_test left to the view
Generated == HasEvent(trace, "generate_evaluation_test")
GenerateReply == Event(trace, "generate_evaluation_test")[2]
GenerateResult == Event(trace, "generate_evaluation_test")[3]

\* the last request was a submission that got as far as the AI calls
Analyzed == HasEvent(trace, "analyze_user_performance")
AnalysisReply == Event(trace, "analyze_user_performance")[3]
ExplainReply == Event(trace, "get_bulk_explanations")[3]

\* the last request was a submission that created a result, the last row
Persisted == HasEvent(trace, "EvaluationResult.create")
LastResult == results[Len(results)]
ShownResult == response = Redirect("evaluation_results", Len(results))

\* the text of a reply decodes, and to what
Decoded(ai) == JsonLoads(CleanResponse(ai.text))
Undecodable(ai) == ~ai.raises /\ CleanResponse(ai.text) # "" /\ IsRaise(Decoded(ai))

\* the entries of a snapshot that were answered wrongly
WrongEntries(snapshot) == {i \in 1..Len(snapshot) : ~snapshot[i].is_correct}
CorrectEntries(snapshot) == {i \in 1..Len(snapshot) : snapshot[i].is_correct}
NonEmptyStr(v) == IsStr(v) /\ v[2] # ""

----------------------------------------------------------------------------
(* C1, C2: the response parser of generate_evaluation_test *)

\* C1: a non-empty AI text that does not decode as JSON makes
\* generate_evaluation_test return (None, the malformed-response message); it
\* raises nothing and returns neither the empty nor the connectivity message.
C1_MalformedIsReported ==
    (Generated /\ Undecodable(GenerateReply)) =>
        /\ GenerateResult.exc = ""
        /\ GenerateResult.data = None
        /\ GenerateResult.error = PyStr(MalformedMsg)

\* texts made of fence markers and whitespace only
MarkerTexts ==
    UNION {{Join(p, "", 1) : p \in [1..n -> {Fence, FenceJson, " ", "\n"}]}
            : n \in 0..MaxPieces}

\* C2: an AI text that is empty once the fence markers are removed and the
\* whitespace trimmed, as every text made of fence markers and whitespace is,
\* makes generate_evaluation_test return (None, the empty-response message)
\* without reaching json.loads.
C2_EmptyBeforeDecode ==
    (Generated /\ ~GenerateReply.raises) =>
        /\ GenerateReply.text \in MarkerTexts => CleanResponse(GenerateReply.text) = ""
        /\ CleanResponse(GenerateReply.text) = "" =>
              /\ GenerateResult.exc = ""
              /\ GenerateResult.data = None
              /\ GenerateResult.error = PyStr(EmptyMsg)
              /\ \A i \in 1..Len(GenerateResult.steps) : GenerateResult.steps[i] # "json.loads"

\* a text of fence markers around a line break was answered with the
\* empty-response message
C2_Witness ==
    /\ Generated
    /\ GenerateReply.text = FenceJson \o "\n" \o Fence
    /\ response = Render("evaluation/error.html", EmptyMsg)

----------------------------------------------------------------------------
(* C3: scoring *)

\* C3: a completed submission changes the user's points by
\* (#correct x 10) - (#incorrect x 5), where a question is correct when it was
\* answered with its correct_answer and incorrect otherwise, unanswered
\* included; the persisted score is #correct and total_questions is
\* #correct + #incorrect.
C3_ScoreDelta ==
    [][HasEvent(trace', "EvaluationResult.create") =>
        LET result == results'[Len(results')]
            snapshot == result.full_results_data
            questions == Items(session.evaluation_questions)
            correct == {i \in 1..Len(questions) :
                            /\ snapshot[i].user_answer # None
                            /\ snapshot[i].user_answer =
                                    Subscript(questions[i], PyStr("correct_answer"))}
            incorrect == (1..Len(questions)) \ correct
        IN  /\ points' - points = Cardinality(correct) * 10 - Cardinality(incorrect) * 5
            /\ result.score = Cardinality(correct)
            /\ result.total_questions = Cardinality(correct) + Cardinality(incorrect)
      ]_vars

----------------------------------------------------------------------------
(* C4 - C9: analysis and explanations in the persisted result *)

\* C4: in every persisted result, every snapshot entry that was answered
\* wrongly has an explanation that is a non-empty string.
C4_WrongHaveExplanation ==
    \A r \in 1..Len(results) :
        \A i \in WrongEntries(results[r].full_results_data) :
            NonEmptyStr(results[r].full_results_data[i].explanation)

\* C5: a persisted result without a wrong answer has an empty
\* detailed_weaknesses list.
C5_AllCorrectNoWeakness ==
    \A r \in 1..Len(results) :
        WrongEntries(results[r].full_results_data) = {} =>
            results[r].detailed_weaknesses = PyList(<<>>)

\* C6: a submission that reaches the AI calls persists a result and is
\* redirected to the results page, whatever the two calls answer.
C6_SubmissionNeverAborts ==
    Analyzed => (Persisted /\ ShownResult)

\* the explanation call failed as a whole: it raised, or its text does not decode
ExplainFailed == ExplainReply.raises \/ IsRaise(Decoded(ExplainReply))

\* C7: when the explanation call fails as a whole, the wrong answers of the
\* persisted snapshot all carry the same non-empty explanation, the failure
\* placeholder, also when two of them have the same question text.
C7_FailureSamePlaceholder ==
    (Persisted /\ ExplainFailed) =>
        LET snapshot == LastResult.full_results_data
        IN  \A i, j \in WrongEntries(snapshot) :
                /\ snapshot[i].explanation = snapshot[j].explanation
                /\ snapshot[i].explanation = PyStr(FailedExplanationMsg)
                /\ NonEmptyStr(snapshot[i].explanation)

\* the explanation call failed, two wrong answers share a question text and a
\* third kind of entry is absent: both carry the failure placeholder
C7_Witness ==
    /\ Persisted
    /\ ExplainFailed
    /\ LET snapshot == LastResult.full_results_data
       IN  /\ \E i, j \in WrongEntries(snapshot) :
                  /\ i # j
                  /\ snapshot[i].question_text = snapshot[j].question_text
                  /\ snapshot[i].explanation = PyStr(FailedExplanationMsg)
                  /\ snapshot[j].explanation = PyStr(FailedExplanationMsg)

\* the explanation call answered with a mapping
ExplainMapped == ~ExplainReply.raises /\ IsDict(Decoded(ExplainReply))

\* C8: when the explanation call answers with a mapping, a wrong answer whose
\* question text is no key of the mapping gets the missing-explanation
\* placeholder, and one whose question text is a key gets the mapping's value
\* for that text.
C8_MissingKeyPlaceholder ==
    (Persisted /\ ExplainMapped) =>
        LET snapshot == LastResult.full_results_data
            mapping == Decoded(ExplainReply)
        IN  \A i \in WrongEntries(snapshot) :
                IF HasKey(mapping, snapshot[i].question_text)
                THEN snapshot[i].explanation =
                        mapping[2][KeyIndex(mapping[2], snapshot[i].question_text, 1)][2]
                ELSE snapshot[i].explanation = PyStr(MissingExplanationMsg)

\* the mapping explains one wrong answer and omits another
C8_Witness ==
    /\ Persisted
    /\ ExplainMapped
    /\ LET snapshot == LastResult.full_results_data
           mapping == Decoded(ExplainReply)
       IN  \E i, j \in WrongEntries(snapshot) :
              /\ HasKey(mapping, snapshot[i].question_text)
              /\ snapshot[i].explanation = PyStr("why " \o snapshot[i].question_text[2])
              /\ ~HasKey(mapping, snapshot[j].question_text)
              /\ snapshot[j].explanation = PyStr(MissingExplanationMsg)

\* C9: in every persisted result, every snapshot entry that was answered
\* correctly has the empty explanation; explanations go to wrong answers only.
C9_CorrectKeepEmpty ==
    \A r \in 1..Len(results) :
        \A i \in CorrectEntries(results[r].full_results_data) :
            results[r].full_results_data[i].explanation = PyStr("")

\* the mapping explains the text of a correctly answered question, which a
\* wrongly answered question shares: only the wrong one took the explanation
C9_Witness ==
    /\ Persisted
    /\ ExplainMapped
    /\ LET snapshot == LastResult.full_results_data
           mapping == Decoded(ExplainReply)
       IN  \E i \in CorrectEntries(snapshot), j \in WrongEntries(snapshot) :
              /\ snapshot[i].question_text = snapshot[j].question_text
              /\ HasKey(mapping, snapshot[i].question_text)
              /\ snapshot[j].explanation = PyStr("why " \o snapshot[j].question_text[2])
              /\ snapshot[i].explanation = PyStr("")

----------------------------------------------------------------------------
(* C10: a failed test generation *)

\* generate_evaluation_test reported one of its three failures
ReportedFailure(g) ==
    g.exc = "" /\ g.error \in {PyStr(EmptyMsg), PyStr(MalformedMsg), PyStr(ConnectMsg)}
\* generate_evaluation_test returned data that has no "questions" key
ReturnedWithoutQuestions(g) ==
    /\ g.exc = ""
    /\ g.error = None
    /\ ~(IsDict(g.data) /\ HasKey(g.data, PyStr("questions")))

\* C10: when generate_evaluation_test reports a failure or returns data
\* without a "questions" key, take_evaluation_view shows the error page with
\* the message of that kind and leaves the session as it was; the three
\* failure messages differ from each other.
C10_GenerationFailureAborts ==
    /\ EmptyMsg # MalformedMsg /\ EmptyMsg # ConnectMsg /\ MalformedMsg # ConnectMsg
    /\ [][HasEvent(trace', "generate_evaluation_test") =>
            LET g == Event(trace', "generate_evaluation_test")[3]
            IN  /\ ReportedFailure(g) =>
                    /\ response' = Render("evaluation/error.html", g.error[2])
                    /\ session' = session
                /\ ReturnedWithoutQuestions(g) =>
                    /\ response' = Render("evaluation/error.html", MissingQuestionsMsg)
                    /\ session' = session
         ]_vars

----------------------------------------------------------------------------
(* C11: one result and one points update for each generated test *)

\* the points a result stands for
PointsDelta(result) ==
    RewardPoints * result.score
        - PenaltyPoints * (result.total_questions - result.score)

\* C11: a request that creates a result creates one, removes the question
\* set it was created for from the session and adds that result's points
\* delta to the user's points; a request that creates no result leaves the
\* points as they were. So each generated question set gets at most one
\* result and its delta is applied at most once, resubmits included.
C11_OneResultOneDelta ==
    [][IF Len(results') > Len(results)
       THEN /\ Len(results') = Len(results) + 1
            /\ session' = EmptySession
            /\ points' = points + PointsDelta(results'[Len(results')])
       ELSE points' = points
      ]_vars

----------------------------------------------------------------------------
(* C12: the order of the orchestrator's steps *)

\* where the event tagged tag stands in a request's trace, 0 when it has none
Position(tr, tag) == IF HasEvent(tr, tag) THEN CHOOSE i \in 1..Len(tr) : tr[i][1] = tag ELSE 0

\* analyze, explain, update the points, create the result, clean the session:
\* a request takes a step only after it took the ones before it
OrderedSteps(tr) ==
    LET analyze == Position(tr, "analyze_user_performance")
        explain == Position(tr, "get_bulk_explanations")
        save == Position(tr, "user.save")
        create == Position(tr, "EvaluationResult.create")
        cleanup == Position(tr, "del session")
    IN  /\ explain # 0 => (analyze # 0 /\ analyze < explain)
        /\ save # 0 => (explain # 0 /\ explain < save)
        /\ create # 0 => (save # 0 /\ save < create)
        /\ cleanup # 0 => (create # 0 /\ create < cleanup)

\* the session holds a question set and a start timestamp
InFlight(sess) ==
    /\ Truthy(SessionGet(sess, "evaluation_questions", None))
    /\ Truthy(SessionGet(sess, "evaluation_start_time", None))

\* the response presents a test
Presented(resp) == resp[1] = "render" /\ resp[2] = "evaluation/take.html"

\* a submit that is not a POST, or finds no question set in the session, calls
\* no AI, leaves the points and the session alone and creates no result,
\* whatever was posted and whatever the AI would have replied
RefusedSubmitIsInert ==
    \A method \in Methods, post \in Forms(session),
       analysis_ai \in AnalysisReplies, explain_ai \in ExplanationReplies :
        (method # "POST" \/ ~Truthy(SessionGet(session, "evaluation_questions", None))) =>
            submit_evaluation_view(session, points, results, method, post,
                                   analysis_ai, explain_ai, requests + 1)
                = Outcome(session, points, <<>>, Redirect("start_evaluation", 0), <<>>)

\* C12: a test is presented only from a session that holds a question set and
\* a start timestamp, and a request that is no generation and finds neither
\* redirects to the start page; a submit that is not a POST or has no
\* question set in flight makes no AI call, changes no points and creates no
\* result; within a request the analysis call comes before the explanation
\* call, both before the points update, that before the result creation, and
\* the session loses its question set and start timestamp only in a request
\* that created a result before.
C12_StepsInOrder ==
    /\ []RefusedSubmitIsInert
    /\ [][/\ OrderedSteps(trace')
          /\ Presented(response') =>
                /\ InFlight(session)
                /\ session' = session
                /\ response'[3].questions = session.evaluation_questions
          /\ (~InFlight(session) /\ ~HasEvent(trace', "generate_evaluation_test")) =>
                /\ response' = Redirect("start_evaluation", 0)
                /\ trace' = <<>> /\ points' = points /\ results' = results
          /\ (session.evaluation_questions # Absent /\ session'.evaluation_questions = Absent) =>
                /\ session' = EmptySession
                /\ Len(results') = Len(results) + 1
                /\ HasEvent(trace', "EvaluationResult.create")
          /\ (session.evaluation_start_time # Absent /\ session'.evaluation_start_time = Absent) =>
                HasEvent(trace', "EvaluationResult.create")
         ]_vars

\* a submission went through all its steps after the test had been generated
C12_Witness ==
    /\ requests = 2
    /\ Len(trace) = 5
    /\ trace[1][1] = "analyze_user_performance"
    /\ trace[2][1] = "get_bulk_explanations"
    /\ trace[3][1] = "user.save"
    /\ trace[4][1] = "EvaluationResult.create"
    /\ trace[5][1] = "del session"
    /\ session = EmptySession
    /\ Len(results) = 1

====
